---------------------------- MODULE Spec2Model ----------------------------
(***************************************************************************)
(* Model of the IRC transport core of Platform: the Message codec, the     *)
(* Reply packer, the Request receive buffer (src/src/irc/message.rs) and   *)
(* the listener / connection queue / worker pool wired up by main()        *)
(* (src/src/main.rs).                                                      *)
(*                                                                         *)
(* Strings and buffers are sequences of byte values.  Every call records   *)
(* what it returned in `result`, so that the properties can speak about    *)
(* the value a caller observes.                                            *)
(***************************************************************************)
EXTENDS Integers, Sequences, FiniteSets, TLC

VARIABLES
    message,    \* a Message under construction: prefix, command, parameters
    text,       \* the String a caller is about to hand to Message::from_string
    reply,      \* Reply.messages
    request,    \* a Request: data, messages, size
    result,     \* the last call and the value it returned
    main_pc,    \* where main() stands
    workers,    \* per worker: spawned, the connection it owns, those it served
    queue,      \* the shared connection queue
    accepted    \* how many connections the listener has accepted

vars == <<message, text, reply, request, result, main_pc, workers, queue, accepted>>

---------------------------------------------------------------------------
(* Bytes the code names. *)
NUL == 0
LF == 10
CR == 13
SP == 32
COLON == 58

(* Size of the receive buffer and of a transmission frame.  The constant    *)
(* is declared in the irc module and imported at message.rs:18; every       *)
(* operation below is written against the name, so the model is checked     *)
(* for a small value of it.                                                 *)
BUFFER_SIZE == 4

(* Bounds of the model. *)
MaxMessageSize == 4     \* bytes of the fields of one Message under construction,
                        \* one more per parameter (its separator on the wire)
MaxTextLen == 5         \* length of a text handed to from_string
MaxReplyMessages == 4   \* messages held by the Reply
NumCpus == 2            \* num_cpus::get()
MaxConnections == 4     \* connections the listener accepts

(* Payload bytes: what fields, texts and received data are made of. *)
MessageChars == {SP, COLON, 97}
TextChars == {SP, COLON, 97, 98}
RequestBytes == {NUL, CR, LF, 97, 255}

CRLF == <<CR, LF>>

(* All sequences over S of length at most n. *)
StringsUpTo(S, n) == UNION {[1..k -> S] : k \in 0..n}

(* The example of the specification:                                        *)
(* ":nick!user@host COMMAND a b :trailing words"                            *)
ExampleText ==
    <<58, 110, 105, 99, 107, 33, 117, 115, 101, 114, 64, 104, 111, 115, 116,
      32, 67, 79, 77, 77, 65, 78, 68, 32, 97, 32, 98, 32, 58, 116, 114, 97,
      105, 108, 105, 110, 103, 32, 119, 111, 114, 100, 115>>

Texts == StringsUpTo(TextChars, MaxTextLen) \cup {ExampleText}

(* The strings a caller gives to the setters of a Message, by the room left. *)
FieldStrings == [n \in 0..MaxMessageSize |-> StringsUpTo(MessageChars, n)]

---------------------------------------------------------------------------
(* Values of std the code uses. *)

Ok(v) == [tag |-> "Ok", value |-> v]
Err(k) == [tag |-> "Err", kind |-> k]

(* str::contains(" ") *)
contains(s, c) == \E i \in 1..Len(s) : s[i] = c

(* Index of the first occurrence of byte c in s, 0 when there is none. *)
find(s, c) ==
    IF contains(s, c)
    THEN CHOOSE i \in 1..Len(s) : s[i] = c /\ \A j \in 1..(i - 1) : s[j] # c
    ELSE 0

(* str::split(' '): the pieces between the separators, empty ones kept;     *)
(* a string with n separators gives n + 1 pieces.                           *)
RECURSIVE split(_, _)
split(s, c) ==
    LET i == find(s, c)
    IN  IF i = 0
        THEN <<s>>
        ELSE <<SubSeq(s, 1, i - 1)>> \o split(SubSeq(s, i + 1, Len(s)), c)

(* Index of the first occurrence of "\r\n" in s, 0 when there is none. *)
find_crlf(s) ==
    LET hits == {i \in 1..(Len(s) - 1) : s[i] = CR /\ s[i + 1] = LF}
    IN  IF hits = {} THEN 0 ELSE CHOOSE i \in hits : \A j \in hits : i <= j

(* str::split("\r\n") *)
RECURSIVE split_crlf(_)
split_crlf(s) ==
    LET i == find_crlf(s)
    IN  IF i = 0
        THEN <<s>>
        ELSE <<SubSeq(s, 1, i - 1)>> \o split_crlf(SubSeq(s, i + 2, Len(s)))

(* std::str::from_utf8.  The only bytes above 127 the model writes are 0xFF, *)
(* which no UTF-8 text holds; all other bytes are ASCII.                     *)
from_utf8(bytes) ==
    IF \A i \in 1..Len(bytes) : bytes[i] < 128 THEN Ok(bytes) ELSE Err("Utf8Error")

---------------------------------------------------------------------------
(* Message *)

Message_new == [prefix |-> <<>>, command |-> <<>>, parameters |-> <<>>]

set_prefix(m, prefix) == [m EXCEPT !.prefix = prefix]

set_command(m, command) == [m EXCEPT !.command = command]

add_parameter(m, parameter) == [m EXCEPT !.parameters = Append(@, parameter)]

(* The loop of Message::string not marking the parameter that holds a      *)
(* space with a colon.                                                      *)
RECURSIVE push_parameters_unmarked(_, _)
push_parameters_unmarked(string, parameters) ==
    IF parameters = <<>>
    THEN string
    ELSE LET p == Head(parameters)
         IN  IF contains(p, SP)
             THEN string \o <<SP>> \o p
             ELSE push_parameters_unmarked(string \o <<SP>> \o p, Tail(parameters))

(* The loop of Message::string over the parameters: it stops after the     *)
(* first parameter that holds a space.                                      *)
RECURSIVE push_parameters(_, _)
push_parameters(string, parameters) ==
    IF parameters = <<>>
    THEN string
    ELSE LET p == Head(parameters)
         IN  IF contains(p, SP)
             THEN string \o <<SP>> \o <<COLON>> \o p
             ELSE push_parameters(string \o <<SP>> \o p, Tail(parameters))

Message_string(m) ==
    LET head == IF m.prefix # <<>> THEN <<COLON>> \o m.prefix \o <<SP>> ELSE <<>>
    IN  push_parameters(head \o m.command, m.parameters) \o CRLF

(* p.chars().nth(0) == Some(':') *)
starts_with_colon(p) == Len(p) > 0 /\ p[1] = COLON

(* One turn of the loop of Message::from_string: piece p at position i. *)
from_string_step(acc, i, p) ==
    IF i = 0
    THEN IF starts_with_colon(p)
         THEN [acc EXCEPT !.prefix = Tail(p)]
         ELSE [acc EXCEPT !.command = p]
    ELSE IF i = 1 /\ acc.prefix # <<>>
    THEN [acc EXCEPT !.command = p]
    ELSE IF acc.last_parameter # <<>>
    THEN [acc EXCEPT !.last_parameter = @ \o p \o <<SP>>]
    ELSE IF starts_with_colon(p)
    THEN [acc EXCEPT !.last_parameter = @ \o Tail(p) \o <<SP>>]
    ELSE [acc EXCEPT !.parameters = Append(@, p)]

RECURSIVE from_string_loop(_, _, _)
from_string_loop(acc, i, pieces) ==
    IF pieces = <<>>
    THEN acc
    ELSE from_string_loop(from_string_step(acc, i, Head(pieces)), i + 1, Tail(pieces))

Message_from_string(string) ==
    LET start == [prefix |-> <<>>, command |-> <<>>, parameters |-> <<>>,
                  last_parameter |-> <<>>]
        acc == from_string_loop(start, 0, split(string, SP))
        parameters ==
            IF acc.last_parameter # <<>>
            THEN Append(acc.parameters,
                        SubSeq(acc.last_parameter, 1, Len(acc.last_parameter) - 1))
            ELSE acc.parameters
    IN  [prefix |-> acc.prefix, command |-> acc.command, parameters |-> parameters]

---------------------------------------------------------------------------
(* Reply *)

Reply_new == <<>>

add_message(messages, m) == Append(messages, m)

add_messages(messages, others) == messages \o others

(* impl Add for Reply *)
Reply_add(self, other) == add_messages(add_messages(Reply_new, self), other)

(* Reply::strings forgetting the frame under construction when the loop     *)
(* ends.                                                                     *)
RECURSIVE strings_loop_drops_last(_, _, _, _)
strings_loop_drops_last(limit, messages, data, buffer) ==
    IF messages = <<>>
    THEN Ok(data)
    ELSE LET string == Message_string(Head(messages))
         IN  IF Len(string) > limit
             THEN Err("InvalidData")
             ELSE IF Len(buffer) + Len(string) <= limit
             THEN strings_loop_drops_last(limit, Tail(messages), data, buffer \o string)
             ELSE strings_loop_drops_last(limit, Tail(messages), Append(data, buffer), string)

(* Reply::strings returning the frames packed so far when it meets a message *)
(* that is too long.                                                         *)
RECURSIVE strings_loop_returns_partial(_, _, _, _)
strings_loop_returns_partial(limit, messages, data, buffer) ==
    IF messages = <<>>
    THEN Ok(IF buffer # <<>> THEN Append(data, buffer) ELSE data)
    ELSE LET string == Message_string(Head(messages))
         IN  IF Len(string) > limit
             THEN Ok(IF buffer # <<>> THEN Append(data, buffer) ELSE data)
             ELSE IF Len(buffer) + Len(string) <= limit
             THEN strings_loop_returns_partial(limit, Tail(messages), data, buffer \o string)
             ELSE strings_loop_returns_partial(limit, Tail(messages), Append(data, buffer), string)

(* Reply::strings comparing with < where the code has <=. *)
RECURSIVE strings_loop_strict(_, _, _, _)
strings_loop_strict(limit, messages, data, buffer) ==
    IF messages = <<>>
    THEN Ok(IF buffer # <<>> THEN Append(data, buffer) ELSE data)
    ELSE LET string == Message_string(Head(messages))
         IN  IF Len(string) > limit
             THEN Err("InvalidData")
             ELSE IF Len(buffer) + Len(string) < limit
             THEN strings_loop_strict(limit, Tail(messages), data, buffer \o string)
             ELSE strings_loop_strict(limit, Tail(messages), Append(data, buffer), string)

(* The loop of Reply::strings, and what follows it: `data` are the frames   *)
(* pushed so far, `buffer` is the frame under construction, `limit` is      *)
(* BUFFER_SIZE.                                                              *)
RECURSIVE strings_loop(_, _, _, _)
strings_loop(limit, messages, data, buffer) ==
    IF messages = <<>>
    THEN Ok(IF buffer # <<>> THEN Append(data, buffer) ELSE data)
    ELSE LET string == Message_string(Head(messages))
         IN  IF Len(string) > limit
             THEN Err("InvalidData")
             ELSE IF Len(buffer) + Len(string) <= limit
             THEN strings_loop(limit, Tail(messages), data, buffer \o string)
             ELSE strings_loop(limit, Tail(messages), Append(data, buffer), string)

Reply_strings(messages) == strings_loop(BUFFER_SIZE, messages, <<>>, <<>>)

---------------------------------------------------------------------------
(* Request *)

Request_new ==
    [data |-> [i \in 1..BUFFER_SIZE |-> NUL], messages |-> <<>>, size |-> 0]

clear_data(self) == [self EXCEPT !.data = [i \in 1..BUFFER_SIZE |-> NUL],
                                 !.messages = <<>>,
                                 !.size = 0]

(* A write of byte b at offset i through the reference data() returns. *)
data_write(self, i, b) == [self EXCEPT !.data[i + 1] = b]

(* The loop of Request::size: the bytes before the first zero byte. *)
RECURSIVE count_bytes(_, _)
count_bytes(data, size) ==
    IF size = Len(data) \/ data[size + 1] = NUL
    THEN size
    ELSE count_bytes(data, size + 1)

(* A call on a Request: what it returns and the Request it leaves. *)
Request_size(self) ==
    IF self.size = 0
    THEN LET size == count_bytes(self.data, 0)
         IN  [ret |-> size, self |-> [self EXCEPT !.size = size]]
    ELSE [ret |-> self.size, self |-> self]

Request_string(self) ==
    LET sized == Request_size(self)
        decoded == from_utf8(SubSeq(sized.self.data, 1, sized.ret))
    IN  [ret |-> IF decoded.tag = "Ok" THEN decoded.value ELSE <<>>,
         self |-> sized.self]

(* The loop of Request::messages over the pieces of the text. *)
RECURSIVE parse_pieces(_)
parse_pieces(pieces) ==
    IF pieces = <<>>
    THEN <<>>
    ELSE IF Head(pieces) # <<>>
    THEN <<Message_from_string(Head(pieces))>> \o parse_pieces(Tail(pieces))
    ELSE parse_pieces(Tail(pieces))

Request_messages(self) ==
    IF self.messages = <<>>
    THEN LET string == Request_string(self)
             messages == parse_pieces(split_crlf(string.ret))
         IN  [ret |-> messages, self |-> [string.self EXCEPT !.messages = messages]]
    ELSE [ret |-> self.messages, self |-> self]

(* self.data[i]: the byte, or a panic when i is outside the array. *)
InBounds(i) == i \in 0..(BUFFER_SIZE - 1)

(* Request::valid accepting a size of 2. *)
Request_valid_from_two(self) ==
    LET sized == Request_size(self)
        size == sized.ret
        data == sized.self.data
    IN  IF ~(size >= 2)
        THEN [ret |-> FALSE, panicked |-> FALSE, self |-> sized.self]
        ELSE IF ~InBounds(size - 1)
        THEN [ret |-> FALSE, panicked |-> TRUE, self |-> sized.self]
        ELSE IF data[size] # LF
        THEN [ret |-> FALSE, panicked |-> FALSE, self |-> sized.self]
        ELSE IF ~InBounds(size - 2)
        THEN [ret |-> FALSE, panicked |-> TRUE, self |-> sized.self]
        ELSE [ret |-> data[size - 1] = CR, panicked |-> FALSE, self |-> sized.self]

(* Request::valid: the && chain evaluates left to right and stops at the    *)
(* first false operand; data[size - 1] is element `size` of the sequence.   *)
Request_valid(self) ==
    LET sized == Request_size(self)
        size == sized.ret
        data == sized.self.data
    IN  IF ~(size > 2)
        THEN [ret |-> FALSE, panicked |-> FALSE, self |-> sized.self]
        ELSE IF ~InBounds(size - 1)
        THEN [ret |-> FALSE, panicked |-> TRUE, self |-> sized.self]
        ELSE IF data[size] # LF
        THEN [ret |-> FALSE, panicked |-> FALSE, self |-> sized.self]
        ELSE IF ~InBounds(size - 2)
        THEN [ret |-> FALSE, panicked |-> TRUE, self |-> sized.self]
        ELSE [ret |-> data[size - 1] = CR, panicked |-> FALSE, self |-> sized.self]

---------------------------------------------------------------------------
(* Initial states *)

WorkerIds == 1..NumCpus

Init ==
    /\ message = Message_new
    /\ text = <<>>
    /\ reply = <<>>
    /\ request = Request_new
    /\ result = [op |-> "new"]
    /\ main_pc = "spawn"
    /\ workers = [w \in WorkerIds |-> [spawned |-> FALSE, connection |-> 0, served |-> <<>>]]
    /\ queue = <<>>
    /\ accepted = 0

---------------------------------------------------------------------------
(* Actions on a Message *)

RECURSIVE parameters_size(_)
parameters_size(ps) ==
    IF ps = <<>> THEN 0 ELSE 1 + Len(Head(ps)) + parameters_size(Tail(ps))

message_size(m) == Len(m.prefix) + Len(m.command) + parameters_size(m.parameters)

others_message == <<text, reply, request, main_pc, workers, queue, accepted>>

SetPrefix ==
    \E s \in FieldStrings[MaxMessageSize - message_size(set_prefix(message, <<>>))] :
        /\ message' = set_prefix(message, s)
        /\ result' = [op |-> "set_prefix"]
        /\ UNCHANGED others_message

SetCommand ==
    \E s \in FieldStrings[MaxMessageSize - message_size(set_command(message, <<>>))] :
        /\ message' = set_command(message, s)
        /\ result' = [op |-> "set_command"]
        /\ UNCHANGED others_message

AddParameter ==
    /\ message_size(add_parameter(message, <<>>)) <= MaxMessageSize
    /\ \E s \in FieldStrings[MaxMessageSize - message_size(add_parameter(message, <<>>))] :
        /\ message' = add_parameter(message, s)
        /\ result' = [op |-> "add_parameter"]
        /\ UNCHANGED others_message

String ==
    /\ result' = [op |-> "string", value |-> Message_string(message)]
    /\ UNCHANGED <<message, others_message>>

(* The texts a caller has at hand for from_string: the text it was given,   *)
(* and, after string(), the serialized message as it is and as a line with  *)
(* the terminating CR LF taken off.                                         *)
FromStringArguments ==
    {text} \cup
    (IF result.op = "string"
     THEN {result.value, SubSeq(result.value, 1, Len(result.value) - 2)}
     ELSE {})

FromString ==
    \E string \in FromStringArguments :
        /\ result' = [op |-> "from_string", argument |-> string,
                      value |-> Message_from_string(string)]
        /\ UNCHANGED <<message, others_message>>

NextMessage == SetPrefix \/ SetCommand \/ AddParameter \/ String \/ FromString

SpecMessage == Init /\ [][NextMessage]_vars

(* from_string on every text up to the bound. *)
InitParse ==
    /\ text \in Texts
    /\ message = Message_new
    /\ reply = <<>>
    /\ request = Request_new
    /\ result = [op |-> "new"]
    /\ main_pc = "spawn"
    /\ workers = [w \in WorkerIds |-> [spawned |-> FALSE, connection |-> 0, served |-> <<>>]]
    /\ queue = <<>>
    /\ accepted = 0

NextParse == FromString

SpecParse == InitParse /\ [][NextParse]_vars

---------------------------------------------------------------------------
(* Actions on the Reply *)

(* A run of n payload bytes. *)
Run(n) == [i \in 1..n |-> 97]

(* The messages handed to the Reply: commands of every length up to one     *)
(* that cannot fit a frame, a message with a parameter, one with a prefix   *)
(* and one whose first parameter holds a space.                              *)
ReplyMessages ==
    {[prefix |-> <<>>, command |-> Run(n), parameters |-> <<>>] : n \in 0..BUFFER_SIZE}
    \cup {[prefix |-> <<>>, command |-> <<>>, parameters |-> <<Run(1)>>],
          [prefix |-> Run(1), command |-> <<>>, parameters |-> <<>>],
          [prefix |-> <<>>, command |-> <<>>, parameters |-> <<<<SP>>, Run(1)>>]}

(* The vectors handed to add_messages, and the messages of a second Reply. *)
ReplyVectors == StringsUpTo(ReplyMessages, 2)

others_reply == <<message, text, request, main_pc, workers, queue, accepted>>

AddMessage ==
    \E m \in ReplyMessages :
        /\ Len(reply) < MaxReplyMessages
        /\ reply' = add_message(reply, m)
        /\ result' = [op |-> "add_message"]
        /\ UNCHANGED others_reply

AddMessages ==
    \E ms \in ReplyVectors :
        /\ Len(reply) + Len(ms) <= MaxReplyMessages
        /\ reply' = add_messages(reply, ms)
        /\ result' = [op |-> "add_messages"]
        /\ UNCHANGED others_reply

Add ==
    \E other \in ReplyVectors :
        /\ Len(reply) + Len(other) <= MaxReplyMessages
        /\ reply' = Reply_add(reply, other)
        /\ result' = [op |-> "add"]
        /\ UNCHANGED others_reply

Strings ==
    /\ result' = [op |-> "strings", value |-> Reply_strings(reply)]
    /\ UNCHANGED <<reply, others_reply>>

NextReply == AddMessage \/ AddMessages \/ Add \/ Strings

SpecReply == Init /\ [][NextReply]_vars

---------------------------------------------------------------------------
(* Actions on the Request *)

others_request == <<message, text, reply, main_pc, workers, queue, accepted>>

ClearData ==
    /\ request' = clear_data(request)
    /\ result' = [op |-> "clear_data"]
    /\ UNCHANGED others_request

(* data(): the caller gets the whole array and writes a byte into it. *)
Data ==
    \E i \in 0..(BUFFER_SIZE - 1), b \in RequestBytes :
        /\ request' = data_write(request, i, b)
        /\ result' = [op |-> "data"]
        /\ UNCHANGED others_request

Size ==
    LET call == Request_size(request)
    IN  /\ request' = call.self
        /\ result' = [op |-> "size", value |-> call.ret]
        /\ UNCHANGED others_request

RequestString ==
    LET call == Request_string(request)
    IN  /\ request' = call.self
        /\ result' = [op |-> "request_string", value |-> call.ret]
        /\ UNCHANGED others_request

Valid ==
    LET call == Request_valid(request)
    IN  /\ request' = call.self
        /\ result' = [op |-> "valid", value |-> call.ret, panicked |-> call.panicked]
        /\ UNCHANGED others_request

Messages ==
    LET call == Request_messages(request)
    IN  /\ request' = call.self
        /\ result' = [op |-> "messages", value |-> call.ret]
        /\ UNCHANGED others_request

NextRequest == ClearData \/ Data \/ Size \/ RequestString \/ Valid \/ Messages

SpecRequest == Init /\ [][NextRequest]_vars

(* The buffer and the cached size alone: messages() reads and changes them  *)
(* only by calling string(), so leaving it out changes no state of the two. *)
NextBuffer == ClearData \/ Data \/ Size \/ RequestString \/ Valid

SpecBuffer == Init /\ [][NextBuffer]_vars

---------------------------------------------------------------------------
(* main(), the listener and the workers *)

(* main.rs 25-28: one Worker per CPU, built on a handle of the listener's   *)
(* queue and started at once.                                               *)
MainSpawnWorker ==
    /\ main_pc = "spawn"
    /\ \E w \in WorkerIds :
          /\ ~workers[w].spawned
          /\ \A v \in 1..(w - 1) : workers[v].spawned
          /\ workers' = [workers EXCEPT ![w].spawned = TRUE]
    /\ UNCHANGED <<main_pc, queue, accepted, message, text, reply, request, result>>

(* main.rs 29: listener.set_bind_string, once the loop is over. *)
MainSetBindString ==
    /\ main_pc = "spawn"
    /\ \A w \in WorkerIds : workers[w].spawned
    /\ main_pc' = "run"
    /\ UNCHANGED <<workers, queue, accepted, message, text, reply, request, result>>

(* main.rs 30-31: listener.run() starts the listener; main joins it. *)
MainRunListener ==
    /\ main_pc = "run"
    /\ main_pc' = "join"
    /\ UNCHANGED <<workers, queue, accepted, message, text, reply, request, result>>

(* The running listener accepts a connection and pushes it onto the queue. *)
ListenerAccept ==
    /\ main_pc = "join"
    /\ accepted < MaxConnections
    /\ accepted' = accepted + 1
    /\ queue' = Append(queue, accepted + 1)
    /\ UNCHANGED <<main_pc, workers, message, text, reply, request, result>>

(* A dequeue that hands out the head of the queue and leaves it there. *)
WorkerDequeue_keeps_head(w) ==
    /\ workers[w].spawned
    /\ workers[w].connection = 0
    /\ queue # <<>>
    /\ workers' = [workers EXCEPT ![w].connection = Head(queue),
                                  ![w].served = Append(@, Head(queue))]
    /\ UNCHANGED <<queue, main_pc, accepted, message, text, reply, request, result>>

(* An idle worker takes the connection at the head of the queue; it blocks  *)
(* while the queue is empty.                                                *)
WorkerDequeue(w) ==
    /\ workers[w].spawned
    /\ workers[w].connection = 0
    /\ queue # <<>>
    /\ workers' = [workers EXCEPT ![w].connection = Head(queue),
                                  ![w].served = Append(@, Head(queue))]
    /\ queue' = Tail(queue)
    /\ UNCHANGED <<main_pc, accepted, message, text, reply, request, result>>

(* A worker drops its connection (read error, peer closed, write error) and *)
(* goes back to the queue.                                                  *)
WorkerDrop(w) ==
    /\ workers[w].connection # 0
    /\ workers' = [workers EXCEPT ![w].connection = 0]
    /\ UNCHANGED <<queue, main_pc, accepted, message, text, reply, request, result>>

NextQueue ==
    \/ MainSpawnWorker
    \/ MainSetBindString
    \/ MainRunListener
    \/ ListenerAccept
    \/ \E w \in WorkerIds : WorkerDequeue(w)
    \/ \E w \in WorkerIds : WorkerDrop(w)

SpecQueue == Init /\ [][NextQueue]_vars

---------------------------------------------------------------------------
(* The whole program *)

Next == NextMessage \/ NextReply \/ NextRequest \/ NextQueue

Spec == Init /\ [][Next]_vars

---------------------------------------------------------------------------
(* Properties of the Message codec *)

(* No parameter but possibly the last holds a space. *)
OnlyLastParameterHasSpace(m) ==
    \A i \in 1..(Len(m.parameters) - 1) : ~contains(m.parameters[i], SP)

(* A string without its last two bytes. *)
WithoutTerminator(s) == SubSeq(s, 1, Len(s) - 2)

SameCommandAndParameters(m, n) ==
    m.command = n.command /\ m.parameters = n.parameters

(* C3 as stated: for any Message m with no parameter containing a space      *)
(* except possibly the last, from_string(m.string()) reproduces m's command  *)
(* and parameters exactly.                                                   *)
C3_RoundTripAsStated ==
    (/\ result.op = "from_string"
     /\ result.argument = Message_string(message)
     /\ OnlyLastParameterHasSpace(message))
    => SameCommandAndParameters(result.value, message)

(* The messages the wire format can carry: no space in the prefix or the     *)
(* command, a command that cannot be taken for a prefix, and no space-free   *)
(* parameter that starts with the colon of a trailing parameter.             *)
Representable(m) ==
    /\ ~contains(m.prefix, SP)
    /\ ~contains(m.command, SP)
    /\ m.prefix = <<>> => ~starts_with_colon(m.command)
    /\ OnlyLastParameterHasSpace(m)
    /\ \A i \in 1..Len(m.parameters) :
          ~contains(m.parameters[i], SP) => ~starts_with_colon(m.parameters[i])

(* C3 amended: for any Message m whose prefix and command hold no space,     *)
(* whose command does not start with ':' when the prefix is empty, and whose *)
(* parameters hold no space except possibly the last and do not start with   *)
(* ':' unless they hold a space, from_string applied to m.string() without   *)
(* its terminating CR LF reproduces m's command and parameters exactly.      *)
C3_RoundTrip ==
    (/\ result.op = "from_string"
     /\ result.argument = WithoutTerminator(Message_string(message))
     /\ Representable(message))
    => SameCommandAndParameters(result.value, message)

(* A message with a prefix and two parameters, the last one holding a space, *)
(* has been serialized and parsed back.                                      *)
C3_Witness ==
    /\ result.op = "from_string"
    /\ result.argument = WithoutTerminator(Message_string(message))
    /\ Representable(message)
    /\ message.prefix # <<>>
    /\ Len(message.parameters) = 2
    /\ contains(message.parameters[2], SP)

(* The pieces of a text between single spaces. *)
Tokens(string) == split(string, SP)

(* C7: if token 0 starts with ':' it is the prefix with the colon stripped   *)
(* and token 1 is the command, never a parameter (an empty command when      *)
(* there is no token 1); otherwise token 0 is the command and the prefix is  *)
(* empty.                                                                    *)
C7_PrefixAndCommand ==
    result.op = "from_string" =>
        LET toks == Tokens(result.argument)
            m == result.value
        IN  IF starts_with_colon(toks[1])
            THEN /\ m.prefix = Tail(toks[1])
                 /\ m.command = (IF Len(toks) >= 2 THEN toks[2] ELSE <<>>)
                 /\ Len(m.parameters) <= Len(toks) - 2 \/ Len(toks) = 1
            ELSE /\ m.command = toks[1]
                 /\ m.prefix = <<>>

(* Pieces joined by single spaces. *)
RECURSIVE Join(_)
Join(pieces) ==
    IF Len(pieces) = 1
    THEN pieces[1]
    ELSE pieces[1] \o <<SP>> \o Join(Tail(pieces))

(* The parameters the tokens after the command stand for: one per token up  *)
(* to the first that starts with ':', which, its colon stripped, is joined   *)
(* with all that follow into one last parameter.                             *)
ParametersOf(toks) ==
    LET colons == {i \in 1..Len(toks) : starts_with_colon(toks[i])}
    IN  IF colons = {}
        THEN toks
        ELSE LET k == CHOOSE i \in colons : \A j \in colons : i <= j
             IN  SubSeq(toks, 1, k - 1)
                 \o <<Join(<<Tail(toks[k])>> \o SubSeq(toks, k + 1, Len(toks)))>>

(* The tokens after the command: token 1 is the command when token 0 starts *)
(* with ':', token 0 is otherwise.                                           *)
AfterCommand(toks) ==
    IF starts_with_colon(toks[1])
    THEN SubSeq(toks, 3, Len(toks))
    ELSE Tail(toks)

(* C8: the tokens after the command become the parameters, one per token     *)
(* until the first that starts with ':', which begins the one trailing       *)
(* parameter; without such a token every parameter is a space-free token.    *)
C8_Parameters ==
    result.op = "from_string" =>
        /\ result.value.parameters = ParametersOf(AfterCommand(Tokens(result.argument)))
        /\ (\A i \in 1..Len(result.value.parameters) - 1 :
               ~contains(result.value.parameters[i], SP))

---------------------------------------------------------------------------
(* Properties of the Reply *)

(* The serialized messages of the Reply, in order. *)
Wires == [i \in 1..Len(reply) |-> Message_string(reply[i])]

RECURSIVE Flatten(_)
Flatten(strings) ==
    IF strings = <<>> THEN <<>> ELSE Head(strings) \o Flatten(Tail(strings))

(* The offsets at which the strings of a sequence end. *)
Boundaries(strings) ==
    {Len(Flatten(SubSeq(strings, 1, k))) : k \in 1..Len(strings)}

StringsSucceeded == result.op = "strings" /\ result.value.tag = "Ok"

(* C1: when strings() succeeds, every frame has at most BUFFER_SIZE bytes,   *)
(* the frames concatenated are the serialized messages concatenated in       *)
(* order, and every frame ends where a message ends.                         *)
C1_FramesCarryMessages ==
    StringsSucceeded =>
        LET frames == result.value.value
        IN  /\ \A i \in 1..Len(frames) : Len(frames[i]) <= BUFFER_SIZE
            /\ Flatten(frames) = Flatten(Wires)
            /\ Boundaries(frames) \subseteq Boundaries(Wires)

(* strings() has packed several messages into more than one frame. *)
C1_Witness ==
    /\ StringsSucceeded
    /\ Len(result.value.value) >= 2
    /\ Len(reply) > Len(result.value.value)

(* C2: when any one message of the Reply serializes to more than BUFFER_SIZE *)
(* bytes, strings() returns the error InvalidData, and so no frame.          *)
C2_OversizeIsError ==
    (/\ result.op = "strings"
     /\ \E i \in 1..Len(reply) : Len(Wires[i]) > BUFFER_SIZE)
    => result.value = Err("InvalidData")

(* strings() has failed on a message that follows two that fit one frame     *)
(* and precedes one that fits.                                               *)
C2_Witness ==
    /\ result.op = "strings"
    /\ result.value = Err("InvalidData")
    /\ Len(reply) = 4
    /\ Len(Wires[1]) + Len(Wires[2]) <= BUFFER_SIZE
    /\ Len(Wires[3]) > BUFFER_SIZE
    /\ Len(Wires[4]) <= BUFFER_SIZE

(* The length of the message that starts at an offset of the output. *)
MessageLenAt(wires, offset) ==
    LET k == CHOOSE j \in 1..Len(wires) : Len(Flatten(SubSeq(wires, 1, j - 1))) = offset
    IN  Len(wires[k])

(* Frames packed greedily: none is empty, and the first message of each      *)
(* frame but the first did not fit the frame before it.                      *)
Greedy(limit, wires, frames) ==
    /\ \A i \in 1..Len(frames) : frames[i] # <<>>
    /\ \A i \in 1..(Len(frames) - 1) :
          Len(frames[i]) + MessageLenAt(wires, Len(Flatten(SubSeq(frames, 1, i)))) > limit
    /\ wires = <<>> => frames = <<>>

(* Ten messages of 60 bytes each. *)
TenMessages ==
    [i \in 1..10 |-> [prefix |-> <<>>, command |-> Run(58), parameters |-> <<>>]]

(* C9: strings() packs greedily, no frame is empty, an empty Reply gives no  *)
(* frame; with a limit of 512 bytes, ten messages of 60 bytes give two       *)
(* frames of eight and of two messages.                                      *)
C9_GreedyPacking ==
    /\ StringsSucceeded => Greedy(BUFFER_SIZE, Wires, result.value.value)
    /\ LET wire == Message_string(TenMessages[1])
       IN  /\ Len(wire) = 60
           /\ strings_loop(512, TenMessages, <<>>, <<>>)
                = Ok(<<Flatten([i \in 1..8 |-> wire]), Flatten([i \in 1..2 |-> wire])>>)

(* strings() has closed a frame that was exactly full and started another.   *)
C9_Witness ==
    /\ StringsSucceeded
    /\ Len(result.value.value) >= 2
    /\ Len(result.value.value[1]) = BUFFER_SIZE
    /\ Len(reply) >= 3

---------------------------------------------------------------------------
(* Properties of the Request *)

(* The offset of the first zero byte of the buffer, BUFFER_SIZE when it     *)
(* holds none.                                                               *)
FirstZeroOffset(data) ==
    LET zeros == {i \in 0..(BUFFER_SIZE - 1) : data[i + 1] = NUL}
    IN  IF zeros = {} THEN BUFFER_SIZE ELSE CHOOSE i \in zeros : \A j \in zeros : i <= j

(* C4: in every state of a Request, size() returns the offset of the first   *)
(* zero byte of the current buffer content, or BUFFER_SIZE when there is     *)
(* none.                                                                     *)
C4_SizeIsFirstZero ==
    Request_size(request).ret = FirstZeroOffset(request.data)

(* The messages of the current buffer content: its bytes up to the first     *)
(* zero byte, decoded, cut at CR LF, each non-empty piece parsed.            *)
MessagesOfContent(data) ==
    LET decoded == from_utf8(SubSeq(data, 1, FirstZeroOffset(data)))
    IN  parse_pieces(split_crlf(IF decoded.tag = "Ok" THEN decoded.value ELSE <<>>))

(* C5: a messages() call made while a list is cached (messages() has        *)
(* returned it and clear_data() was not called since) and after bytes were   *)
(* appended (the content is longer than it was when the list was parsed)     *)
(* returns the messages of the buffer content as it is at the call.          *)
C5_MessagesFollowContent ==
    [][(/\ request.messages # <<>>
        /\ request.size < FirstZeroOffset(request.data)
        /\ result'.op = "messages")
        => result'.value = MessagesOfContent(request'.data)]_vars

(* The buffer holds exactly n bytes: n non-zero bytes, then zero bytes. *)
HoldsExactly(data, n) ==
    /\ \A i \in 1..n : data[i] # NUL
    /\ \A i \in (n + 1)..BUFFER_SIZE : data[i] = NUL

(* C6: valid() is true exactly when size() is greater than 2 and the two     *)
(* bytes before that size are CR then LF; it is false for a buffer that      *)
(* holds no byte, one byte or two bytes; it never indexes outside the        *)
(* buffer.                                                                   *)
C6_Valid ==
    result.op = "valid" =>
        LET size == Request_size(request).ret
        IN  /\ ~result.panicked
            /\ result.value = (/\ size > 2
                               /\ request.data[size - 1] = CR
                               /\ request.data[size] = LF)
            /\ (\E n \in 0..2 : HoldsExactly(request.data, n)) => ~result.value

(* valid() has returned true on a buffer that is completely full. *)
C6_Witness ==
    /\ result.op = "valid"
    /\ result.value
    /\ Request_size(request).ret = BUFFER_SIZE
    /\ \A i \in 1..BUFFER_SIZE : request.data[i] # NUL

---------------------------------------------------------------------------
(* Properties of the connection queue *)

(* How many times x occurs in a sequence. *)
RECURSIVE Occurrences(_, _)
Occurrences(seq, x) ==
    IF seq = <<>>
    THEN 0
    ELSE (IF Head(seq) = x THEN 1 ELSE 0) + Occurrences(Tail(seq), x)

RECURSIVE Deliveries(_, _)
Deliveries(ws, c) ==
    IF ws = {}
    THEN 0
    ELSE LET w == CHOOSE v \in ws : TRUE
         IN  Occurrences(workers[w].served, c) + Deliveries(ws \ {w}, c)

(* C10: every connection the listener has enqueued is either still in the    *)
(* queue, once, or was delivered to exactly one worker, once; workers start  *)
(* before the listener runs.                                                 *)
C10_DeliveredOnce ==
    /\ \A c \in 1..accepted :
          Occurrences(queue, c) + Deliveries(WorkerIds, c) = 1
    /\ \A w \in WorkerIds :
          workers[w].connection # 0 => workers[w].connection \in 1..accepted
    /\ accepted > 0 => \A w \in WorkerIds : workers[w].spawned

(* All connections were accepted and delivered, and every worker served one. *)
C10_Witness ==
    /\ accepted = MaxConnections
    /\ queue = <<>>
    /\ \A w \in WorkerIds : workers[w].served # <<>>

===========================================================================
